---- MODULE Spec2Model ----
(***************************************************************************)
(* Model of the worker lifecycle supervisor of deno-http-worker            *)
(* (rs/src/lib.rs): construction (spawn, exit monitor, readiness gate,     *)
(* warm-up), the exit monitor task, terminate / shutdown / on_exit / drop, *)
(* the lock-guarded Option<Child> slot and the capacity-1 broadcast        *)
(* channel that carries the exit notification.                             *)
(***************************************************************************)
EXTENDS Integers, Sequences, FiniteSets, TLC

\* ------------------------------------------------------------------ bounds
MaxOps == 3            \* calls the caller makes on one handle before dropping it

\* ------------------------------------------------------- program constants
Capacity == 1          \* broadcast::channel(1)
KillCode == 9          \* terminate() sends (Some(9), "SIGKILL")

ExitCodes == {0, 1}    \* a success and a failure exit code
Subs == 1 .. MaxOps

\* Option<i32> is a set with at most one element: {} is None, {n} is Some(n).
None == {}
Some(n) == {n}

VARIABLES
    unix,        \* cfg(unix): the build target, fixed per run
    cpc,         \* position of create_worker
    result,      \* what create_worker returned: "pending", "Ok" or the error
    order,       \* construction steps completed, in the order they happened
    hpc,         \* the DenoHTTPWorker value: none, constructed, ready, dropping, dropped
    proc,        \* the subprocess: none, running, exited
    exitCode,    \* ExitStatus::code() of the exited subprocess
    bound,       \* the subprocess has bound its socket
    sockFile,    \* the socket file exists on disk
    signals,     \* signals this library delivered to the running subprocess
    slot,        \* Mutex<Option<Child>>: TRUE is Some(child)
    lock,        \* holder of the process mutex across a suspension point
    mpc,         \* position of the exit monitor task
    mres,        \* the monitor's exit_status: "Ok" or "Err"
    tasks,       \* the tasks spawned by terminate(): [pc, took]
    dropTask,    \* index in tasks of the task spawned by Drop, 0 if none
    sent,        \* every value successfully sent on the exit channel, in order
    spc,         \* per on_exit registration: idle, waiting, done
    snext,       \* per on_exit receiver: position of the next value it reads
    scalls,      \* per on_exit registration: the callback's invocations
    shpc,        \* position of shutdown(): idle, locked
    shCount,     \* shutdown() calls made
    reqs,        \* request()/json_request() calls made
    run_flags,        \* prepare_run_flags: the caller's options.run_flags
    allow_read_value, \* prepare_run_flags: the read grant (socket path, script path)
    composed,         \* prepare_run_flags: the flag lists returned, one per application
    url,              \* request: the url argument
    headers,          \* request: the caller's HashMap<String, String>
    pending,          \* request: keys the `for (key, value) in headers` loop has not visited
    built,            \* request: the headers of the request under construction, in order
    rpc               \* request: idle, headers, built

vars == <<unix, cpc, result, order, hpc, proc, exitCode, bound, sockFile, signals,
          slot, lock, mpc, mres, tasks, dropTask, sent, spc, snext, scalls,
          shpc, shCount, reqs,
          run_flags, allow_read_value, composed, url, headers, pending, built, rpc>>

procVars == <<proc, exitCode, bound, sockFile, signals>>
createVars == <<cpc, result, order, hpc>>
monVars == <<mpc, mres>>
termVars == <<tasks, dropTask>>
subVars == <<spc, snext, scalls>>
shutVars == <<shpc, shCount>>
reqVars == <<reqs>>
flagVars == <<run_flags, allow_read_value, composed>>
buildVars == <<url, headers, pending, built, rpc>>
fnVars == <<flagVars, buildVars>>
lifeVars == <<unix, createVars, procVars, slot, lock, monVars, termVars, sent, subVars,
              shutVars, reqVars>>

ExitOutcome(code, signal) == [code |-> code, signal |-> signal]

\* Calls made on the handle so far: terminate, shutdown, on_exit, request.
Ops ==
    (Len(tasks) - (IF dropTask > 0 THEN 1 ELSE 0)) + shCount + reqs
    + Cardinality({i \in Subs : spc[i] # "idle"})

\* ------------------------------------------------------- broadcast channel
\* The worker's fields exit_sender and _exit_receiver live from
\* monitor_process's return until create_worker's frame or the worker is
\* dropped.
FieldsHeld == cpc = "wait" \/ hpc \in {"constructed", "ready", "dropping"}

\* Receiver handles alive: the worker's _exit_receiver and one per on_exit
\* task that has not finished.
RxCount == (IF FieldsHeld THEN 1 ELSE 0) + Cardinality({i \in Subs : spc[i] = "waiting"})

\* Sender handles alive: the worker's, the monitor task's clone, and one per
\* unfinished terminate task.
TxCount ==
    (IF FieldsHeld THEN 1 ELSE 0)
    + (IF mpc \in {"take", "wait", "remove", "send"} THEN 1 ELSE 0)
    + Cardinality({i \in 1 .. Len(tasks) : tasks[i].pc # "done"})

\* broadcast::Sender::send: fails (value not stored) when no receiver is alive.
Send(v) == IF RxCount = 0 THEN sent ELSE Append(sent, v)

\* broadcast::Receiver::recv on a receiver at position n:
\*   "Value" when sent[n+1] is still in the ring, "Lagged" when it was
\*   overwritten, "Closed" when nothing is pending and every sender is gone,
\*   "Pending" otherwise.
Recv(n) ==
    IF Len(sent) = n
    THEN IF TxCount = 0 THEN "Closed" ELSE "Pending"
    ELSE IF Len(sent) - n > Capacity THEN "Lagged" ELSE "Value"

\* -------------------------------------------------------------------- Init
\* Nothing spawned yet: the state at the entry of create_worker.
Unspawned ==
    /\ cpc = "spawn"
    /\ result = "pending"
    /\ order = <<>>
    /\ hpc = "none"
    /\ proc = "none"
    /\ exitCode = None
    /\ bound = FALSE
    /\ sockFile = FALSE
    /\ signals = {}
    /\ slot = FALSE
    /\ lock = "free"
    /\ mpc = "none"
    /\ mres = "none"
    /\ tasks = <<>>
    /\ dropTask = 0
    /\ sent = <<>>
    /\ spc = [i \in Subs |-> "idle"]
    /\ snext = [i \in Subs |-> 0]
    /\ scalls = [i \in Subs |-> <<>>]
    /\ shpc = "idle"
    /\ shCount = 0
    /\ reqs = 0

\* No flag list composed.
NoFlags ==
    /\ run_flags = <<>>
    /\ allow_read_value = <<>>
    /\ composed = <<>>

\* No request under construction.
NoRequest ==
    /\ url = ""
    /\ headers = <<>>
    /\ pending = {}
    /\ built = <<>>
    /\ rpc = "idle"

Init ==
    /\ unix \in BOOLEAN
    /\ Unspawned
    /\ NoFlags
    /\ NoRequest

\* -------------------------------------------------------- the subprocess
\* The bootstrap script binds the socket: the file comes into existence.
proc_bind ==
    /\ proc = "running"
    /\ ~bound
    /\ bound' = TRUE
    /\ sockFile' = TRUE
    /\ UNCHANGED <<proc, exitCode, signals>>
    /\ UNCHANGED fnVars
    /\ UNCHANGED <<unix, createVars, slot, lock, monVars, termVars, sent, subVars,
                   shutVars, reqVars>>

\* The subprocess terminates by itself: with an exit code, or by a signal
\* (ExitStatus::code() is then None).
proc_exit ==
    /\ proc = "running"
    /\ proc' = "exited"
    /\ exitCode' \in {None} \cup {Some(c) : c \in ExitCodes}
    /\ UNCHANGED <<bound, sockFile, signals>>
    /\ UNCHANGED fnVars
    /\ UNCHANGED <<unix, createVars, slot, lock, monVars, termVars, sent, subVars,
                   shutVars, reqVars>>

\* Child::kill: SIGKILL and reap; a subprocess that already exited keeps its
\* status.
Killed == proc' = "exited"
          /\ exitCode' = (IF proc = "running" THEN None ELSE exitCode)
          /\ signals' = (IF proc = "running" THEN signals \cup {"SIGKILL"} ELSE signals)
          /\ UNCHANGED <<bound, sockFile>>

\* ------------------------------------------------------------ terminate()
\* terminate(): clone the shared handles and spawn the kill task.
SpawnTerminateTask == Append(tasks, [pc |-> "take", took |-> FALSE])

terminate ==
    /\ hpc = "ready"
    /\ Ops < MaxOps
    /\ tasks' = SpawnTerminateTask
    /\ UNCHANGED dropTask
    /\ UNCHANGED fnVars
    /\ UNCHANGED <<unix, createVars, procVars, slot, lock, monVars, sent, subVars,
                   shutVars, reqVars>>

\* The task reading the child through the guard and leaving it in the slot.
terminate_take_shared(i) ==
    /\ tasks[i].pc = "take"
    /\ lock = "free"
    /\ tasks' = [tasks EXCEPT ![i] = [pc |-> IF slot THEN "kill" ELSE "remove",
                                      took |-> slot]]
    /\ UNCHANGED <<slot, dropTask>>
    /\ UNCHANGED fnVars
    /\ UNCHANGED <<unix, createVars, procVars, lock, monVars, sent, subVars,
                   shutVars, reqVars>>

\* let mut child = process.lock().await.take();
terminate_take(i) ==
    /\ tasks[i].pc = "take"
    /\ lock = "free"
    /\ tasks' = [tasks EXCEPT ![i] = [pc |-> IF slot THEN "kill" ELSE "remove",
                                      took |-> slot]]
    /\ slot' = FALSE
    /\ UNCHANGED dropTask
    /\ UNCHANGED fnVars
    /\ UNCHANGED <<unix, createVars, procVars, lock, monVars, sent, subVars,
                   shutVars, reqVars>>

\* if let Some(ref mut child) = child { let _ = child.kill().await; }
terminate_kill(i) ==
    /\ tasks[i].pc = "kill"
    /\ Killed
    /\ tasks' = [tasks EXCEPT ![i].pc = "remove"]
    /\ UNCHANGED dropTask
    /\ UNCHANGED fnVars
    /\ UNCHANGED <<unix, createVars, slot, lock, monVars, sent, subVars,
                   shutVars, reqVars>>

\* let _ = fs::remove_file(&socket_path).await;
terminate_remove(i) ==
    /\ tasks[i].pc = "remove"
    /\ sockFile' = FALSE
    /\ tasks' = [tasks EXCEPT ![i].pc = "send"]
    /\ UNCHANGED <<proc, exitCode, bound, signals, dropTask>>
    /\ UNCHANGED fnVars
    /\ UNCHANGED <<unix, createVars, slot, lock, monVars, sent, subVars,
                   shutVars, reqVars>>

\* let _ = exit_sender.send((Some(9), "SIGKILL".to_string()));
terminate_send(i) ==
    /\ tasks[i].pc = "send"
    /\ sent' = Send(ExitOutcome(Some(KillCode), "SIGKILL"))
    /\ tasks' = [tasks EXCEPT ![i].pc = "done"]
    /\ UNCHANGED dropTask
    /\ UNCHANGED fnVars
    /\ UNCHANGED <<unix, createVars, procVars, slot, lock, monVars, subVars,
                   shutVars, reqVars>>

\* ------------------------------------------------------------------- Drop
\* impl Drop: self.terminate(); the fields are dropped afterwards.
drop_worker ==
    /\ hpc = "ready"
    /\ shpc = "idle"
    /\ hpc' = "dropping"
    /\ tasks' = SpawnTerminateTask
    /\ dropTask' = Len(tasks) + 1
    /\ UNCHANGED <<cpc, result, order>>
    /\ UNCHANGED fnVars
    /\ UNCHANGED <<unix, procVars, slot, lock, monVars, sent, subVars, shutVars, reqVars>>

drop_fields ==
    /\ hpc = "dropping"
    /\ hpc' = "dropped"
    /\ UNCHANGED <<cpc, result, order>>
    /\ UNCHANGED fnVars
    /\ UNCHANGED <<unix, procVars, slot, lock, monVars, termVars, sent, subVars,
                   shutVars, reqVars>>

\* ------------------------------------------------------------ construction
\* Self::spawn_deno_process(...)? succeeds: the subprocess runs.
spawn_deno_process ==
    /\ cpc = "spawn"
    /\ proc' = "running"
    /\ order' = Append(order, "spawn")
    /\ cpc' = "monitor"
    /\ UNCHANGED <<result, hpc, exitCode, bound, sockFile, signals>>
    /\ UNCHANGED fnVars
    /\ UNCHANGED <<unix, slot, lock, monVars, termVars, sent, subVars, shutVars, reqVars>>

\* Command::spawn fails: create_worker returns the I/O error.
spawn_fail ==
    /\ cpc = "spawn"
    /\ result' = "Io"
    /\ cpc' = "returned"
    /\ UNCHANGED <<order, hpc>>
    /\ UNCHANGED fnVars
    /\ UNCHANGED <<unix, procVars, slot, lock, monVars, termVars, sent, subVars,
                   shutVars, reqVars>>

\* monitor_process: the channel and the slot are created, the monitor task
\* is spawned.
monitor_process ==
    /\ cpc = "monitor"
    /\ slot' = TRUE
    /\ mpc' = "take"
    /\ cpc' = "wait"
    /\ UNCHANGED <<result, order, hpc, mres>>
    /\ UNCHANGED fnVars
    /\ UNCHANGED <<unix, procVars, lock, termVars, sent, subVars, shutVars, reqVars>>

\* wait_for_socket returning Ok without the exists() check.
wait_for_socket_found_unchecked ==
    /\ cpc = "wait"
    /\ order' = Append(order, "gate")
    /\ hpc' = "constructed"
    /\ cpc' = "warm"
    /\ UNCHANGED result
    /\ UNCHANGED fnVars
    /\ UNCHANGED <<unix, procVars, slot, lock, monVars, termVars, sent, subVars,
                   shutVars, reqVars>>

\* wait_for_socket: a poll finds socket_file.exists(); the worker value is
\* built.
wait_for_socket_found ==
    /\ cpc = "wait"
    /\ sockFile
    /\ order' = Append(order, "gate")
    /\ hpc' = "constructed"
    /\ cpc' = "warm"
    /\ UNCHANGED result
    /\ UNCHANGED fnVars
    /\ UNCHANGED <<unix, procVars, slot, lock, monVars, termVars, sent, subVars,
                   shutVars, reqVars>>

\* wait_for_socket: the 10 s timeout elapses; create_worker returns
\* SocketTimeout and its frame (process, exit_sender, exit_receiver) is
\* dropped.
wait_for_socket_timeout ==
    /\ cpc = "wait"
    /\ result' = "SocketTimeout"
    /\ cpc' = "returned"
    /\ UNCHANGED <<order, hpc>>
    /\ UNCHANGED fnVars
    /\ UNCHANGED <<unix, procVars, slot, lock, monVars, termVars, sent, subVars,
                   shutVars, reqVars>>

\* warm_request: the request is issued on the client.
warm_request ==
    /\ cpc = "warm"
    /\ order' = Append(order, "warm")
    /\ cpc' = "warming"
    /\ UNCHANGED <<result, hpc>>
    /\ UNCHANGED fnVars
    /\ UNCHANGED <<unix, procVars, slot, lock, monVars, termVars, sent, subVars,
                   shutVars, reqVars>>

\* The warm-up round trip succeeds: Ok(worker).
warm_ok ==
    /\ cpc = "warming"
    /\ proc = "running"
    /\ result' = "Ok"
    /\ hpc' = "ready"
    /\ order' = Append(order, "handle")
    /\ cpc' = "returned"
    /\ UNCHANGED fnVars
    /\ UNCHANGED <<unix, procVars, slot, lock, monVars, termVars, sent, subVars,
                   shutVars, reqVars>>

\* The warm-up round trip fails: `?` returns the error and the worker value
\* is dropped, which runs Drop.
warm_fail ==
    /\ cpc = "warming"
    /\ result' = "HttpClient"
    /\ cpc' = "returned"
    /\ hpc' = "dropping"
    /\ tasks' = SpawnTerminateTask
    /\ dropTask' = Len(tasks) + 1
    /\ UNCHANGED order
    /\ UNCHANGED fnVars
    /\ UNCHANGED <<unix, procVars, slot, lock, monVars, sent, subVars, shutVars, reqVars>>

\* ------------------------------------------------------- exit monitor task
\* The monitor keeping the guard alive while it waits on the child.
monitor_take_holding ==
    /\ mpc = "take"
    /\ lock = "free"
    /\ mpc' = (IF slot THEN "wait" ELSE "done")
    /\ lock' = (IF slot THEN "monitor" ELSE "free")
    /\ slot' = FALSE
    /\ UNCHANGED mres
    /\ UNCHANGED fnVars
    /\ UNCHANGED <<unix, createVars, procVars, termVars, sent, subVars,
                   shutVars, reqVars>>

\* let mut child = process_clone.lock().await.take();
monitor_take ==
    /\ mpc = "take"
    /\ lock = "free"
    /\ mpc' = (IF slot THEN "wait" ELSE "done")
    /\ slot' = FALSE
    /\ UNCHANGED mres
    /\ UNCHANGED fnVars
    /\ UNCHANGED <<unix, createVars, procVars, lock, termVars, sent, subVars,
                   shutVars, reqVars>>

\* let exit_status = child.wait().await;
monitor_wait ==
    /\ mpc = "wait"
    /\ proc = "exited"
    /\ mres' \in {"Ok", "Err"}
    /\ mpc' = "remove"
    /\ UNCHANGED fnVars
    /\ UNCHANGED <<unix, createVars, procVars, slot, lock, termVars, sent, subVars,
                   shutVars, reqVars>>

\* The monitor without its remove_file call.
monitor_remove_skipped ==
    /\ mpc = "remove"
    /\ mpc' = "send"
    /\ UNCHANGED <<proc, exitCode, bound, sockFile, signals, mres>>
    /\ UNCHANGED fnVars
    /\ UNCHANGED <<unix, createVars, slot, lock, termVars, sent, subVars,
                   shutVars, reqVars>>

\* let _ = fs::remove_file(&socket_path_clone).await;
monitor_remove ==
    /\ mpc = "remove"
    /\ sockFile' = FALSE
    /\ mpc' = "send"
    /\ UNCHANGED <<proc, exitCode, bound, signals, mres>>
    /\ UNCHANGED fnVars
    /\ UNCHANGED <<unix, createVars, slot, lock, termVars, sent, subVars,
                   shutVars, reqVars>>

\* Ok(status) => (status.code(), ""), Err(_) => (None, "SIGKILL")
MonitorOutcome ==
    IF mres = "Ok" THEN ExitOutcome(exitCode, "") ELSE ExitOutcome(None, "SIGKILL")

\* let _ = exit_sender_clone.send((code, signal));
monitor_send ==
    /\ mpc = "send"
    /\ sent' = Send(MonitorOutcome)
    /\ mpc' = "done"
    /\ UNCHANGED mres
    /\ UNCHANGED fnVars
    /\ UNCHANGED <<unix, createVars, procVars, slot, lock, termVars, subVars,
                   shutVars, reqVars>>

\* -------------------------------------------------------------- shutdown()
\* let mut process_guard = process.lock().await;
shutdown_lock ==
    /\ hpc = "ready"
    /\ shpc = "idle"
    /\ Ops < MaxOps
    /\ lock = "free"
    /\ lock' = "shutdown"
    /\ shpc' = "locked"
    /\ shCount' = shCount + 1
    /\ UNCHANGED fnVars
    /\ UNCHANGED <<unix, createVars, procVars, slot, monVars, termVars, sent, subVars,
                   reqVars>>

\* if let Some(child) = process_guard.as_mut(): SIGINT on unix, child.kill()
\* elsewhere; the guard is released at the end of the block.
shutdown_signal ==
    /\ shpc = "locked"
    /\ IF slot
       THEN IF unix
            THEN /\ signals' = (IF proc = "running" THEN signals \cup {"SIGINT"} ELSE signals)
                 /\ UNCHANGED <<proc, exitCode, bound, sockFile>>
            ELSE Killed
       ELSE UNCHANGED procVars
    /\ lock' = "free"
    /\ shpc' = "idle"
    /\ UNCHANGED shCount
    /\ UNCHANGED fnVars
    /\ UNCHANGED <<unix, createVars, slot, monVars, termVars, sent, subVars, reqVars>>

\* --------------------------------------------------------------- on_exit()
\* let mut receiver = self.exit_sender.subscribe(); tokio::spawn(...)
on_exit(i) ==
    /\ hpc = "ready"
    /\ Ops < MaxOps
    /\ spc[i] = "idle"
    /\ \A j \in Subs : j < i => spc[j] # "idle"
    /\ spc' = [spc EXCEPT ![i] = "waiting"]
    /\ snext' = [snext EXCEPT ![i] = Len(sent)]
    /\ UNCHANGED scalls
    /\ UNCHANGED fnVars
    /\ UNCHANGED <<unix, createVars, procVars, slot, lock, monVars, termVars, sent,
                   shutVars, reqVars>>

\* if let Ok((code, signal)) = receiver.recv().await { callback(code, signal); }
on_exit_recv(i) ==
    /\ spc[i] = "waiting"
    /\ Recv(snext[i]) # "Pending"
    /\ scalls' = [scalls EXCEPT ![i] =
                    IF Recv(snext[i]) = "Value"
                    THEN Append(@, sent[snext[i] + 1])
                    ELSE @]
    /\ spc' = [spc EXCEPT ![i] = "done"]
    /\ UNCHANGED snext
    /\ UNCHANGED fnVars
    /\ UNCHANGED <<unix, createVars, procVars, slot, lock, monVars, termVars, sent,
                   shutVars, reqVars>>

\* ------------------------------------------------- request / json_request
\* A round trip on the shared client that returns Ok: the subprocess serves.
request_ok ==
    /\ hpc = "ready"
    /\ Ops < MaxOps
    /\ proc = "running"
    /\ reqs' = reqs + 1
    /\ UNCHANGED fnVars
    /\ UNCHANGED <<unix, createVars, procVars, slot, lock, monVars, termVars, sent,
                   subVars, shutVars>>

\* A failed round trip that also terminates the worker.
request_err_teardown ==
    /\ hpc = "ready"
    /\ Ops < MaxOps
    /\ reqs' = reqs + 1
    /\ tasks' = SpawnTerminateTask
    /\ UNCHANGED fnVars
    /\ UNCHANGED <<unix, createVars, procVars, slot, lock, monVars, dropTask, sent,
                   subVars, shutVars>>

\* A round trip that fails (transport error, or json_request's parse error):
\* the error is returned to the caller.
request_err ==
    /\ hpc = "ready"
    /\ Ops < MaxOps
    /\ reqs' = reqs + 1
    /\ UNCHANGED fnVars
    /\ UNCHANGED <<unix, createVars, procVars, slot, lock, monVars, termVars, sent,
                   subVars, shutVars>>

\* ----------------------------------------------------------- specification
Next ==
    \/ proc_bind
    \/ proc_exit
    \/ spawn_deno_process
    \/ spawn_fail
    \/ monitor_process
    \/ wait_for_socket_found
    \/ wait_for_socket_timeout
    \/ warm_request
    \/ warm_ok
    \/ warm_fail
    \/ monitor_take
    \/ monitor_wait
    \/ monitor_remove
    \/ monitor_send
    \/ terminate
    \/ \E i \in 1 .. Len(tasks) : terminate_take(i)
    \/ \E i \in 1 .. Len(tasks) : terminate_kill(i)
    \/ \E i \in 1 .. Len(tasks) : terminate_remove(i)
    \/ \E i \in 1 .. Len(tasks) : terminate_send(i)
    \/ shutdown_lock
    \/ shutdown_signal
    \/ \E i \in Subs : on_exit(i)
    \/ \E i \in Subs : on_exit_recv(i)
    \/ request_ok
    \/ request_err
    \/ drop_worker
    \/ drop_fields

Spec == Init /\ [][Next]_vars

\* ------------------------------------------------------ request: the headers
MaxHeaders == 2        \* entries in the caller's header map

HeaderKeys == {"host", "Host", "connection", "CONNECTION", "accept", "X-Deno-Worker-Host"}
HeaderValues == {"fish", "happy"}
Urls == {"https://localhost/", "https://localhost/hello?isee=you"}

\* The caller's HashMap<String, String>: at most one value per exact key.
HeaderMaps ==
    UNION {[K -> HeaderValues] :
             K \in {K \in SUBSET HeaderKeys : Cardinality(K) <= MaxHeaders}}

\* str::to_lowercase on the names in use.
to_lowercase(k) ==
    CASE k = "Host" -> "host"
      [] k = "CONNECTION" -> "connection"
      [] k = "X-Deno-Worker-Host" -> "x-deno-worker-host"
      [] k = "X-Deno-Worker-Connection" -> "x-deno-worker-connection"
      [] k = "X-Deno-Worker-URL" -> "x-deno-worker-url"
      [] OTHER -> k

\* http::HeaderName: names are stored in lower case.
HeaderName(k) == to_lowercase(k)

\* Builder::header appends one entry to the request's header map.
Header(b, k, v) == Append(b, [name |-> HeaderName(k), value |-> v])

\* Request::builder().method(method).uri(uri).header("X-Deno-Worker-URL", url)
request_begin ==
    /\ rpc = "idle"
    /\ built' = Header(<<>>, "X-Deno-Worker-URL", url)
    /\ pending' = DOMAIN headers
    /\ rpc' = "headers"
    /\ UNCHANGED <<url, headers>>
    /\ UNCHANGED <<lifeVars, flagVars>>

\* The loop body with the keys compared as given, without to_lowercase.
request_header_exact(key) ==
    /\ rpc = "headers"
    /\ key \in pending
    /\ built' = (IF key = "host"
                 THEN Header(built, "X-Deno-Worker-Host", headers[key])
                 ELSE IF key = "connection"
                 THEN Header(built, "X-Deno-Worker-Connection", headers[key])
                 ELSE Header(built, key, headers[key]))
    /\ pending' = pending \ {key}
    /\ UNCHANGED <<url, headers, rpc>>
    /\ UNCHANGED <<lifeVars, flagVars>>

\* for (key, value) in headers { ... }: one iteration, in the map's order.
request_header(key) ==
    /\ rpc = "headers"
    /\ key \in pending
    /\ built' = (IF to_lowercase(key) = "host"
                 THEN Header(built, "X-Deno-Worker-Host", headers[key])
                 ELSE IF to_lowercase(key) = "connection"
                 THEN Header(built, "X-Deno-Worker-Connection", headers[key])
                 ELSE Header(built, key, headers[key]))
    /\ pending' = pending \ {key}
    /\ UNCHANGED <<url, headers, rpc>>
    /\ UNCHANGED <<lifeVars, flagVars>>

\* req_builder.body(...)?: the request is built.
request_body ==
    /\ rpc = "headers"
    /\ pending = {}
    /\ rpc' = "built"
    /\ UNCHANGED <<url, headers, pending, built>>
    /\ UNCHANGED <<lifeVars, flagVars>>

RequestInit ==
    /\ unix = TRUE
    /\ Unspawned
    /\ NoFlags
    /\ url \in Urls
    /\ headers \in HeaderMaps
    /\ pending = {}
    /\ built = <<>>
    /\ rpc = "idle"

RequestNext ==
    \/ request_begin
    \/ \E key \in HeaderKeys : request_header(key)
    \/ request_body

RequestSpec == RequestInit /\ [][RequestNext]_vars

\* --------------------------------------------------- prepare_run_flags
\* A flag is the sequence of the tokens of its string: a flag name, "=", and
\* paths separated by ",".
MaxFlags == 2          \* flags in the caller's run_flags

SocketPath == "/tmp/uuid-deno-http.sock"
ScriptPath == "/app/mod.ts"
OtherPath == "/data"

CallerFlags ==
    {<<"--allow-read">>, <<"--allow-write">>, <<"--allow-all">>, <<"--allow-net">>,
     <<"--allow-read", "=", OtherPath>>, <<"--allow-write", "=", OtherPath>>,
     <<"--allow-read", "=", SocketPath>>, <<"--allow-write", "=", SocketPath>>,
     <<"--allow-read", "=">>}

RunFlagLists == UNION {[1 .. n -> CallerFlags] : n \in 0 .. MaxFlags}

\* new: the socket path; new_from_url: "{socket},{url_path}".
ReadValues == {<<SocketPath>>, <<SocketPath, ",", ScriptPath>>}

\* flag.starts_with("<name>=")
starts_with(flag, name) == Len(flag) >= 2 /\ flag[1] = name /\ flag[2] = "="

\* flag.push_str(&format!(",{}", value))
push_str(flag, value) == flag \o <<",">> \o value

\* format!("<name>={}", value)
format_flag(name, value) == <<name, "=">> \o value

allow_read_found(flags) ==
    \E k \in 1 .. Len(flags) :
        \/ flags[k] = <<"--allow-read">>
        \/ flags[k] = <<"--allow-all">>
        \/ starts_with(flags[k], "--allow-read")

allow_write_found(flags) ==
    \E k \in 1 .. Len(flags) :
        \/ flags[k] = <<"--allow-write">>
        \/ flags[k] = <<"--allow-all">>
        \/ starts_with(flags[k], "--allow-write")

\* The body of `for flag in &mut run_flags`, as it leaves the flag.
loop_flag(flag, read_value, write_value) ==
    LET f == IF starts_with(flag, "--allow-read") THEN push_str(flag, read_value) ELSE flag
    IN  IF starts_with(f, "--allow-write") THEN push_str(f, write_value) ELSE f

\* prepare_run_flags with one `found` variable for both categories.
prepare_run_flags_one_found(flags, read_value, socket_file) ==
    LET write_value == <<socket_file>>
        looped == [k \in 1 .. Len(flags) |-> loop_flag(flags[k], read_value, write_value)]
        found == allow_read_found(flags) \/ allow_write_found(flags)
        r == IF ~found
             THEN Append(looped, format_flag("--allow-read", read_value))
             ELSE looped
    IN  IF ~found THEN Append(r, format_flag("--allow-write", write_value)) ELSE r

\* prepare_run_flags inserting the new flags at the front of the list.
prepare_run_flags_front(flags, read_value, socket_file) ==
    LET write_value == <<socket_file>>
        looped == [k \in 1 .. Len(flags) |-> loop_flag(flags[k], read_value, write_value)]
        r == IF ~allow_read_found(flags)
             THEN <<format_flag("--allow-read", read_value)>> \o looped
             ELSE looped
    IN  IF ~allow_write_found(flags)
        THEN <<format_flag("--allow-write", write_value)>> \o r
        ELSE r

PrepareRunFlags(flags, read_value, socket_file) ==
    LET write_value == <<socket_file>>
        looped == [k \in 1 .. Len(flags) |-> loop_flag(flags[k], read_value, write_value)]
        r == IF ~allow_read_found(flags)
             THEN Append(looped, format_flag("--allow-read", read_value))
             ELSE looped
    IN  IF ~allow_write_found(flags)
        THEN Append(r, format_flag("--allow-write", write_value))
        ELSE r

\* create_worker: prepare_run_flags(options.run_flags.clone(), ...)
prepare_run_flags ==
    /\ composed = <<>>
    /\ composed' = <<PrepareRunFlags(run_flags, allow_read_value, SocketPath)>>
    /\ UNCHANGED <<run_flags, allow_read_value>>
    /\ UNCHANGED <<lifeVars, buildVars>>

\* prepare_run_flags applied to the list it returned.
prepare_run_flags_again ==
    /\ Len(composed) = 1
    /\ composed' = Append(composed, PrepareRunFlags(composed[1], allow_read_value, SocketPath))
    /\ UNCHANGED <<run_flags, allow_read_value>>
    /\ UNCHANGED <<lifeVars, buildVars>>

FlagInit ==
    /\ unix = TRUE
    /\ Unspawned
    /\ NoRequest
    /\ run_flags \in RunFlagLists
    /\ allow_read_value \in ReadValues
    /\ composed = <<>>

FlagNext ==
    \/ prepare_run_flags
    \/ prepare_run_flags_again

FlagSpec == FlagInit /\ [][FlagNext]_vars

\* ------------------------------------------------------------------ claims
Range(q) == {q[k] : k \in 1 .. Len(q)}
IsPrefix(p, q) == Len(p) <= Len(q) /\ \A k \in 1 .. Len(p) : p[k] = q[k]
TaskIds == 1 .. Len(tasks)

\* Every background task of the library has run as far as it can without the
\* subprocess exiting by itself: the monitor is finished or blocked in
\* child.wait() on a running subprocess, and every terminate task is finished.
BackgroundSettled ==
    /\ mpc = "done" \/ (mpc = "wait" /\ proc = "running")
    /\ \A i \in TaskIds : tasks[i].pc = "done"

\* C1: once the task of a terminate() (or of the drop) of a Ready worker has
\* completed, the subprocess is not running any more: it was force-killed.
C1_TerminateKills ==
    result = "Ok" => \A i \in TaskIds : tasks[i].pc = "done" => proc # "running"

\* C2: at most one ExitOutcome is ever sent on the exit channel.
C2_AtMostOneSend == Len(sent) <= 1

\* C3: an on_exit callback registered before the exit notification was sent
\* is, once its receive task has finished, invoked exactly once, with a value
\* that was sent.
C3_EarlySubscriberInvokedOnce ==
    \A i \in Subs :
        (spc[i] = "done" /\ snext[i] = 0) =>
            (Len(scalls[i]) = 1 /\ scalls[i][1] \in Range(sent))

\* C4: an on_exit callback registered after the exit notification was sent is
\* never invoked.
C4_LateSubscriberNeverInvoked ==
    \A i \in Subs : (spc[i] # "idle" /\ snext[i] > 0) => scalls[i] = <<>>

\* C5: every step of a terminate task that found the process slot empty is a
\* no-op for the subprocess and the exit channel: it delivers no signal and
\* sends no exit notification.
C5_TerminateOnEmptySlotIsNoOp ==
    [][\A i \in TaskIds :
          (~tasks[i].took /\ tasks[i].pc \in {"remove", "send"}
             /\ tasks'[i].pc # tasks[i].pc)
          => (sent' = sent /\ signals' = signals)]_vars

\* C6: when create_worker returned SocketTimeout for a socket file that never
\* came into existence, no handle exists and, once the background tasks have
\* settled, the subprocess is not running.
C6_TimeoutLeavesNoProcess ==
    (result = "SocketTimeout" /\ ~bound /\ BackgroundSettled) =>
        (hpc = "none" /\ proc # "running")

\* C7: when the warm-up request failed, no Ready handle exists and, once the
\* worker value is dropped and the background tasks have settled, the
\* subprocess is not running.
C7_WarmFailureLeavesNoProcess ==
    result = "HttpClient" =>
        /\ hpc # "ready"
        /\ (hpc = "dropped" /\ BackgroundSettled) => proc # "running"

\* C8: construction runs spawn, readiness gate, warm-up, handle return in
\* that order; the gate passes only for a socket file that came into
\* existence; requests are issued only on a returned handle; a handle is
\* returned exactly when all the steps completed.
C8_ConstructionOrdered ==
    /\ IsPrefix(order, <<"spawn", "gate", "warm", "handle">>)
    /\ "spawn" \in Range(order) => proc # "none"
    /\ "gate" \in Range(order) => bound
    /\ reqs > 0 => "handle" \in Range(order)
    /\ hpc = "ready" => result = "Ok"
    /\ result = "Ok" <=> "handle" \in Range(order)

\* A Ready handle was returned and a request was issued on it.
C8_Witness == result = "Ok" /\ reqs > 0 /\ Len(order) = 4

\* C9: once the subprocess has terminated and the monitor task and every
\* terminate task have finished, the socket file does not exist.
C9_SocketFileRemoved ==
    (proc = "exited" /\ mpc = "done" /\ \A i \in TaskIds : tasks[i].pc = "done")
        => ~sockFile

\* The subprocess bound its socket, died without a kill from this library
\* and the monitor finished.
C9_Witness ==
    /\ proc = "exited" /\ bound /\ "SIGKILL" \notin signals
    /\ mpc = "done" /\ mres = "Ok"
    /\ \A i \in TaskIds : tasks[i].pc = "done"
    /\ ~sockFile

\* C10: a shutdown() that has completed while the subprocess is still running
\* has delivered its stop request to it (SIGINT; the forced kill of the other
\* targets leaves no running subprocess).
C10_ShutdownDelivers ==
    (shCount > 0 /\ shpc = "idle" /\ proc = "running") => "SIGINT" \in signals

\* The name the claim gives a caller header in the built request.
CarriedAs(k) ==
    IF to_lowercase(k) = "host" THEN "x-deno-worker-host"
    ELSE IF to_lowercase(k) = "connection" THEN "x-deno-worker-connection"
    ELSE to_lowercase(k)

\* C11: the built request carries url in X-Deno-Worker-URL; every caller
\* header whose key is host or connection in any case is carried as
\* X-Deno-Worker-Host / X-Deno-Worker-Connection with its value and no header
\* named host or connection is present; every other caller header is carried
\* under its own name with its own value; nothing else is added.
C11_HeadersCarried ==
    rpc = "built" =>
        /\ [name |-> "x-deno-worker-url", value |-> url] \in Range(built)
        /\ \A k \in DOMAIN headers :
              [name |-> CarriedAs(k), value |-> headers[k]] \in Range(built)
        /\ \A e \in Range(built) : e.name \notin {"host", "connection"}
        /\ Len(built) = 1 + Cardinality(DOMAIN headers)

\* A request was built from a map holding a capitalised Host key and a
\* connection key.
C11_Witness ==
    /\ rpc = "built"
    /\ {"Host", "connection"} \subseteq DOMAIN headers

\* The paths an enumerated flag lists.
Paths(flag) == {flag[k] : k \in 3 .. Len(flag)} \ {","}

GrantsRead(flags) ==
    \E k \in 1 .. Len(flags) :
        \/ flags[k] \in {<<"--allow-read">>, <<"--allow-all">>}
        \/ starts_with(flags[k], "--allow-read") /\ SocketPath \in Paths(flags[k])

GrantsWrite(flags) ==
    \E k \in 1 .. Len(flags) :
        \/ flags[k] \in {<<"--allow-write">>, <<"--allow-all">>}
        \/ starts_with(flags[k], "--allow-write") /\ SocketPath \in Paths(flags[k])

\* C12: the composed flag list grants read and write access to the socket
\* path, each by an unrestricted flag or by an enumerated flag listing it.
C12_SocketPathGranted ==
    Len(composed) >= 1 => (GrantsRead(composed[1]) /\ GrantsWrite(composed[1]))

\* Composed from an unrestricted read flag alone: the write grant is added.
C12_Witness ==
    /\ Len(composed) >= 1
    /\ run_flags = <<<<"--allow-read">>>>
    /\ Len(composed[1]) = 2

\* Occurrences of the socket path in a flag.
SocketCount(flag) == Cardinality({k \in 1 .. Len(flag) : flag[k] = SocketPath})

\* C13: the composer applied to its own output returns it unchanged, and no
\* composed flag lists the socket path twice.
C13_Idempotent ==
    /\ Len(composed) = 2 => composed[2] = composed[1]
    /\ Len(composed) >= 1 =>
          \A k \in 1 .. Len(composed[1]) : SocketCount(composed[1][k]) <= 1

\* C17: the first Len(run_flags) composed flags are the caller's flags in
\* their order, each identical or an enumerated flag with ",<paths>" appended;
\* the flags after them are new --allow-read= / --allow-write= flags.
C17_CallerFlagsKept ==
    Len(composed) >= 1 =>
        LET out == composed[1]
            n == Len(run_flags)
        IN  /\ n <= Len(out) /\ Len(out) <= n + 2
            /\ \A k \in 1 .. n :
                  \/ out[k] = run_flags[k]
                  \/ /\ starts_with(run_flags[k], "--allow-read")
                        \/ starts_with(run_flags[k], "--allow-write")
                     /\ IsPrefix(run_flags[k], out[k])
                     /\ Len(out[k]) > Len(run_flags[k]) + 1
                     /\ out[k][Len(run_flags[k]) + 1] = ","
            /\ \A k \in n + 1 .. Len(out) :
                  \/ out[k] = format_flag("--allow-read", allow_read_value)
                  \/ out[k] = format_flag("--allow-write", <<SocketPath>>)

\* Two caller flags, the first an enumerated read flag that got the read
\* value appended, and a write flag added after them.
C17_Witness ==
    /\ Len(composed) >= 1
    /\ Len(run_flags) = 2
    /\ starts_with(run_flags[1], "--allow-read")
    /\ composed[1][1] # run_flags[1]
    /\ Len(composed[1]) = 3

\* The exit monitor task owns the child it took.
MonitorHolds == mpc \in {"wait", "remove", "send"}

\* The terminate tasks that own the child they took.
TaskHolders == {i \in TaskIds : tasks[i].took}

\* C14: the child has a single owner: it is in the slot, or with the monitor
\* task, or with one terminate task, never with two of them, and a task that
\* kills owns the child it kills while the monitor does not wait on it.
C14_SingleOwner ==
    /\ (IF slot THEN 1 ELSE 0) + (IF MonitorHolds THEN 1 ELSE 0)
         + Cardinality(TaskHolders) <= 1
    /\ \A i \in TaskIds : tasks[i].pc = "kill" => (tasks[i].took /\ ~MonitorHolds)

\* A terminate task took the child and is about to kill it while the monitor
\* task and another terminate task have come away empty-handed.
C14_Witness ==
    /\ mpc = "done"
    /\ \E i, j \in TaskIds : /\ tasks[i].pc = "kill"
                             /\ tasks[j].pc # "take" /\ ~tasks[j].took

\* C15: once the subprocess of a live Ready handle has terminated and the
\* background tasks have finished, the monitor's wait has observed the exit
\* and an exit notification has been sent.
C15_TerminationThroughMonitor ==
    (hpc = "ready" /\ proc = "exited" /\ mpc = "done"
       /\ \A i \in TaskIds : tasks[i].pc = "done")
    => (mres # "none" /\ Len(sent) >= 1)

\* C16: every ExitOutcome sent is a code with an empty signal or no code with
\* the kill signal.
C16_OutcomeShapes ==
    \A k \in 1 .. Len(sent) :
        \/ sent[k].code # None /\ sent[k].signal = ""
        \/ sent[k].code = None /\ sent[k].signal = "SIGKILL"

\* C18: a request or json_request, whether it returns Ok or an error, changes
\* nothing of the worker's lifecycle state.
C18_RequestsLeaveLifecycle ==
    [][reqs' # reqs =>
          UNCHANGED <<createVars, procVars, slot, lock, monVars, termVars, sent,
                      subVars, shutVars>>]_vars

\* Two requests were made on a Ready handle whose subprocess still runs.
C18_Witness == reqs >= 2 /\ hpc = "ready" /\ proc = "running" /\ sent = <<>>

\* C19: an ExitOutcome has been sent only if the subprocess has terminated.
C19_SentOnlyAfterExit == sent # <<>> => proc = "exited"

\* The next step of terminate task i.
terminate_step(i) ==
    /\ i \in TaskIds
    /\ terminate_take(i) \/ terminate_kill(i) \/ terminate_remove(i) \/ terminate_send(i)

\* C20: the process lock is held only inside shutdown's block, never by the
\* monitor while it waits; whoever holds it can release it at once, and every
\* unfinished terminate task can take its next step, or can as soon as the
\* holder has released the lock, whether or not the subprocess ever exits.
C20_LockNeverBlocks ==
    /\ lock # "free" => (shpc = "locked" /\ ENABLED shutdown_signal)
    /\ \A i \in TaskIds :
          tasks[i].pc # "done" => (ENABLED terminate_step(i) \/ lock # "free")

\* A terminate task and a shutdown() have completed while the monitor is
\* waiting on a subprocess that is still running.
C20_Witness ==
    /\ mpc = "wait" /\ proc = "running"
    /\ shCount > 0 /\ shpc = "idle"
    /\ \E i \in TaskIds : tasks[i].pc = "done"

====
